---- MODULE Spec2Model ----
(***************************************************************************)
(* Model of src/extract_vocabulary.py: the VocabularyExtractor class.      *)
(*                                                                         *)
(* A Python str is a sequence of characters; a character is a one-letter   *)
(* TLA+ string, except the two non-ASCII letters, which are written by     *)
(* their code points ("U+00E4", "U+00C4").  The empty str is << >>.        *)
(* A vocabulary entry is the tuple <<foreign, english, notes>>.            *)
(*                                                                         *)
(* Spec      : process_directory run repeatedly over one directory.        *)
(* SpecParse : smart_parse_vocabulary applied to one text.                 *)
(***************************************************************************)
EXTENDS Integers, Sequences, FiniteSets

VARIABLES
    language_name,      \* self.language_name
    png_files,          \* the images of the directory, in glob order
    output_file,        \* the store file: [exists, content]
    pc,                 \* position in process_directory: idle / loop / returned
    idx,                \* index of the image the loop is at
    total_new_entries,  \* local of process_directory
    processed_files,    \* local of process_directory (image indexes as names)
    result,             \* value returned by the last process_directory
    run,                \* number of process_directory calls started
    initial_file,       \* history: the store file before the first run
    run_start_file,     \* history: the store file when the current run began
    read_failures,      \* history: number of failed reads of the store file
    append_opens,       \* history: opens of the store file for append, this run
    accepted,           \* history: <<image, key>> of each entry accepted this run
    last_append,        \* history: the last append_vocabulary call
    text,               \* SpecParse: the text handed to smart_parse_vocabulary
    vocabulary,         \* SpecParse: its result
    origin,             \* SpecParse: per result entry, its strategy and line
    parsed              \* SpecParse: whether the parse has run

vars == <<language_name, png_files, output_file, pc, idx, total_new_entries,
          processed_files, result, run, initial_file, run_start_file,
          read_failures, append_opens, accepted, last_append,
          text, vocabulary, origin, parsed>>

pipeline_vars == <<png_files, output_file, pc, idx, total_new_entries,
                   processed_files, result, run, initial_file, run_start_file,
                   read_failures, append_opens, accepted, last_append>>

parse_vars == <<text, vocabulary, origin, parsed>>

----------------------------------------------------------------------------
(* Bounds of the model. *)

\* Longest generated text of SpecParse, in characters.
MaxTextLen == 4
\* Most images in the directory.
MaxImages == 2
\* Most process_directory calls on the same directory.
MaxRuns == 2
\* Most failed reads of the store file in one behaviour.
MaxReadFailures == 1

----------------------------------------------------------------------------
(* Python str operations, on sequences of characters. *)

UpperLetters == <<"A","B","C","D","E","F","G","H","I","J","K","L","M",
                  "N","O","P","Q","R","S","T","U","V","W","X","Y","Z","U+00C4">>
LowerLetters == <<"a","b","c","d","e","f","g","h","i","j","k","l","m",
                  "n","o","p","q","r","s","t","u","v","w","x","y","z","U+00E4">>

\* str.lower() on one character.
LowerChar(c) ==
    IF \E i \in 1..Len(UpperLetters) : UpperLetters[i] = c
    THEN LowerLetters[CHOOSE i \in 1..Len(UpperLetters) : UpperLetters[i] = c]
    ELSE c

\* str.lower()
Lower(s) == [i \in 1..Len(s) |-> LowerChar(s[i])]

\* ord(c) > 127
NonAscii(c) == c \in {"U+00E4", "U+00C4"}

\* The characters str.strip() removes and \s matches, among those of the model.
IsSpace(c) == c \in {" ", "\t", "\n"}

SetMin(S) == CHOOSE i \in S : \A j \in S : i <= j
SetMax(S) == CHOOSE i \in S : \A j \in S : j <= i

\* The elements of a set of integers in increasing order.
Sorted(S) == [k \in 1..Cardinality(S) |->
                 CHOOSE i \in S : Cardinality({j \in S : j < i}) = k - 1]

\* str.strip()
Strip(s) ==
    LET keep == {i \in 1..Len(s) : ~IsSpace(s[i])}
    IN  IF keep = {} THEN << >> ELSE SubSeq(s, SetMin(keep), SetMax(keep))

RECURSIVE SplitFrom(_, _, _)
\* The pieces of s from position i on, where hits are the positions of the
\* delimiter in s.
SplitFrom(s, hits, i) ==
    LET later == {h \in hits : h >= i}
    IN  IF later = {} THEN << SubSeq(s, i, Len(s)) >>
        ELSE << SubSeq(s, i, SetMin(later) - 1) >>
               \o SplitFrom(s, hits, SetMin(later) + 1)

\* str.split(d): the pieces between the occurrences of d, one more than them.
Split(s, d) == SplitFrom(s, {j \in 1..Len(s) : s[j] = d}, 1)

\* sub in s
Contains(s, sub) ==
    \E i \in 0..(Len(s) - Len(sub)) : SubSeq(s, i + 1, i + Len(sub)) = sub

\* any(k in s for k in keys)
ContainsAny(s, keys) == \E k \in keys : Contains(s, k)

\* [w.strip() for w in re.split(r'\s{2,}|\t', line) if w.strip()]
\* A whitespace character separates when it is a tab or stands in a run of two
\* or more; the pieces are the maximal runs of the other characters (the empty
\* pieces re.split yields at the ends are the ones the filter drops).
SplitWords(line) ==
    LET sep(i) == /\ IsSpace(line[i])
                  /\ \/ line[i] = "\t"
                     \/ (i > 1 /\ IsSpace(line[i - 1]))
                     \/ (i < Len(line) /\ IsSpace(line[i + 1]))
        starts == Sorted({i \in 1..Len(line) :
                            ~sep(i) /\ (i = 1 \/ sep(i - 1))})
        stop(i) == SetMax({j \in i..Len(line) : \A k \in i..j : ~sep(k)})
        pieces == [k \in 1..Len(starts) |-> Strip(SubSeq(line, starts[k], stop(starts[k])))]
    IN  SelectSeq(pieces, LAMBDA w : w # << >>)

RECURSIVE Flatten(_)
\* The concatenation of a sequence of sequences.
Flatten(ss) == IF ss = << >> THEN << >> ELSE Head(ss) \o Flatten(Tail(ss))

----------------------------------------------------------------------------
(* The parser. *)

\* Line 84: the headers parse_vocabulary_table skips.
TableHeaders ==
    { <<"g","e","r","m","a","n">>, <<"e","n","g","l","i","s","h">>,
      <<"s","p","a","n","i","s","h">>, <<"f","r","e","n","c","h">>,
      <<"w","o","r","d"," ","s","t","r","e","n","g","t","h">>,
      <<"s","t","r","e","n","g","t","h">> }

\* Line 101: first words the whitespace branch filters out.
TableSkips ==
    { <<"w","e","a","k">>, <<"s","t","r","o","n","g">>, <<"n","e","w">>,
      <<"l","e","a","r","n","i","n","g">> }

\* Lines 121-122: the headers smart_parse_vocabulary skips.
SmartHeaders ==
    { <<"g","e","r","m","a","n">>, <<"e","n","g","l","i","s","h">>,
      <<"s","p","a","n","i","s","h">>, <<"f","r","e","n","c","h">>,
      <<"t","r","a","n","s","l","a","t","i","o","n">>,
      <<"w","o","r","d"," ","s","t","r","e","n","g","t","h">> }

\* Lines 131-132: the words that rule out a line or its next line.
SmartSkips ==
    { <<"w","e","a","k">>, <<"s","t","r","o","n","g">>, <<"n","e","w">> }

\* Line 136: the languages whose lines pair without a non-ASCII character.
PairingLanguages == {"German", "Spanish", "French"}

\* One iteration of the loop of parse_vocabulary_table: the entries (none or
\* one) the raw line adds to the vocabulary.
TableLine(raw) ==
    LET line == Strip(raw)
        pieces == Split(line, "|")
        parts == [k \in 1..Len(pieces) |-> Strip(pieces[k])]
        words == SplitWords(line)
    IN  IF line = << >> THEN << >>
        ELSE IF ContainsAny(Lower(line), TableHeaders) THEN << >>
        ELSE IF Contains(line, <<"|">>)
             THEN IF Len(parts) >= 2 /\ parts[1] # << >> /\ parts[2] # << >>
                  THEN << <<parts[1], parts[2],
                            IF Len(parts) > 2 THEN parts[3] ELSE << >> >> >>
                  ELSE << >>
        ELSE IF Len(words) >= 2 /\ ~ContainsAny(Lower(words[1]), TableSkips)
             THEN << <<words[1], words[2], << >> >> >>
             ELSE << >>

parse_vocabulary_table(t) ==
    LET lines == Split(t, "\n")
    IN  Flatten([i \in 1..Len(lines) |-> TableLine(lines[i])])

\* One iteration of the second loop of smart_parse_vocabulary, at line i
\* (1-based) of lines.
AdjacentLine(lines, i, language) ==
    LET line == Strip(lines[i])
        next_line == Strip(lines[i + 1])
        has_foreign_chars == \E k \in 1..Len(line) : NonAscii(line[k])
    IN  IF line = << >> \/ ContainsAny(Lower(line), SmartHeaders) THEN << >>
        ELSE IF /\ i < Len(lines)
                /\ next_line # << >>
                /\ ~ContainsAny(Lower(line), SmartSkips)
                /\ ~ContainsAny(Lower(next_line), SmartSkips)
                /\ (has_foreign_chars \/ language \in PairingLanguages)
             THEN << <<line, next_line, << >> >> >>
             ELSE << >>

smart_parse_vocabulary(t, language) ==
    LET lines == Split(t, "\n")
    IN  parse_vocabulary_table(t)
          \o Flatten([i \in 1..Len(lines) |-> AdjacentLine(lines, i, language)])

\* For each entry of smart_parse_vocabulary(t, language), in order, the
\* strategy that emitted it and the line of t it was emitted at.
ParseOrigin(t, language) ==
    LET lines == Split(t, "\n")
        mark(s, i, es) == [k \in 1..Len(es) |-> [strategy |-> s, line |-> i]]
    IN  Flatten([i \in 1..Len(lines) |-> mark("table", i, TableLine(lines[i]))])
          \o Flatten([i \in 1..Len(lines) |->
                        mark("adjacent", i, AdjacentLine(lines, i, language))])

----------------------------------------------------------------------------
(* The store. *)

\* Line 166: the note written for an entry that has none.
FromImage == <<"f","r","o","m"," ","i","m","a","g","e">>

\* The lines iterating over the open file yields: the pieces between the
\* newlines, without the empty piece after a final newline.
FileLines(content) ==
    LET pieces == Split(content, "\n")
    IN  IF pieces[Len(pieces)] = << >>
        THEN SubSeq(pieces, 1, Len(pieces) - 1)
        ELSE pieces

\* Lines 148-151: the key a line of the file adds to the existing set, if any.
LineKeys(raw) ==
    LET line == Strip(raw)
    IN  IF Contains(line, <<"|">>)
        THEN {Lower(Strip(Split(line, "|")[1]))}
        ELSE {}

\* load_existing_vocabulary on a file that exists and holds the given lines,
\* where lines_read of them are read before the read ends: all of them when it
\* succeeds, fewer when it raises (0 when open raises).  The except clause
\* keeps the set built so far.  On no file the result is the empty set.
load_existing_vocabulary(exists, lines, lines_read) ==
    IF exists
    THEN UNION {LineKeys(lines[i]) : i \in 1..lines_read}
    ELSE {}

RECURSIVE NewEntriesWithoutAdd(_, _)
\* The loop of append_vocabulary without line 167.
NewEntriesWithoutAdd(vocab, existing) ==
    IF vocab = << >> THEN << >>
    ELSE LET e == Head(vocab)
         IN  IF Lower(e[1]) \notin existing
             THEN << <<e[1], e[2], IF e[3] = << >> THEN FromImage ELSE e[3]>> >>
                    \o NewEntriesWithoutAdd(Tail(vocab), existing)
             ELSE NewEntriesWithoutAdd(Tail(vocab), existing)

RECURSIVE NewEntries(_, _)
\* Lines 162-167: the loop of append_vocabulary, its result new_entries.
NewEntries(vocab, existing) ==
    IF vocab = << >> THEN << >>
    ELSE LET e == Head(vocab)
         IN  IF Lower(e[1]) \notin existing
             THEN << <<e[1], e[2], IF e[3] = << >> THEN FromImage ELSE e[3]>> >>
                    \o NewEntries(Tail(vocab), existing \cup {Lower(e[1])})
             ELSE NewEntries(Tail(vocab), existing)

\* Line 172: the line written for one entry.
EntryLine(e) == e[1] \o <<"|">> \o e[2] \o <<"|">> \o e[3] \o <<"\n">>

\* Lines 170-172 with the file opened in mode 'w'.
WriteEntriesTruncating(file, new_entries) ==
    [exists |-> TRUE,
     content |-> Flatten([k \in 1..Len(new_entries) |-> EntryLine(new_entries[k])])]

\* Lines 170-172: the file after new_entries are written to it in mode 'a'.
WriteEntries(file, new_entries) ==
    [exists |-> TRUE,
     content |-> file.content
                   \o Flatten([k \in 1..Len(new_entries) |-> EntryLine(new_entries[k])])]

\* append_vocabulary(vocab), where the store file holds the given lines and
\* its read stops after lines_read of them (failed: it raised).  The count
\* returned is last_append'.count.
append_vocabulary(vocab, lines, failed, lines_read) ==
    \E existing \in {load_existing_vocabulary(output_file.exists, lines, lines_read)} :
      \E new_entries \in {NewEntries(vocab, existing)} :
        /\ output_file' = IF new_entries # << >>
                          THEN WriteEntries(output_file, new_entries)
                          ELSE output_file
        /\ append_opens' = append_opens + (IF new_entries # << >> THEN 1 ELSE 0)
        /\ read_failures' = read_failures + (IF failed THEN 1 ELSE 0)
        /\ accepted' = accepted \o
              [k \in 1..Len(new_entries) |-> <<idx, Lower(new_entries[k][1])>>]
        /\ last_append' = [called |-> TRUE,
                           vocabulary |-> vocab,
                           before |-> output_file,
                           read_failed |-> failed,
                           existing |-> existing,
                           new_entries |-> new_entries,
                           count |-> Len(new_entries)]

----------------------------------------------------------------------------
(* The batch. *)

\* extract_text_from_image: the OCR text stripped, or "" when OCR raises.
extract_text_from_image(image) ==
    IF image.ocr_ok THEN Strip(image.raw) ELSE << >>

\* Line 43: the name of the store file.
OutputFileName(language) ==
    IF language = "German" THEN "german_vocabulary.txt" ELSE "italian_vocabulary.txt"

\* The summary returned at lines 210-214.
Summary ==
    [processed_files |-> processed_files,
     total_new_entries |-> total_new_entries,
     output_file |-> OutputFileName(language_name)]

\* The directory name the extractor is constructed on (line 41).
Languages == {"German", "Italian"}

\* What OCR makes of an image: it raises, or returns a text.
SampleImages ==
    { [ocr_ok |-> FALSE, raw |-> << >>],
      [ocr_ok |-> TRUE, raw |-> <<"c","\n">>],
      [ocr_ok |-> TRUE, raw |-> <<"a","|","b","\n","c">>],
      [ocr_ok |-> TRUE, raw |-> <<"A"," ","|"," ","d","|","n","\n",
                                  "a"," "," ","b","\n","a","\n","c">>] }

\* The store file before the first run: absent, or left by earlier runs and
\* edited by hand (a line without delimiter, a last line without newline).
InitialStores ==
    { [exists |-> FALSE, content |-> << >>],
      [exists |-> TRUE, content |-> <<"a","|","z","|","n","\n","x","\n","c","|","d">>] }

\* Lines 192 and 198 for every language and image: the vocabulary parsed from
\* the text of the image (<< >> when it has no text or no vocabulary).
ImageVocabulary ==
    [language \in Languages, image \in SampleImages |->
        IF extract_text_from_image(image) = << >>
        THEN << >>
        ELSE smart_parse_vocabulary(extract_text_from_image(image), language)]

NoAppend == [called |-> FALSE]

\* process_directory is called and enters its loop whatever glob returned.
ProcessDirectoryCallUnchecked ==
    /\ pc \in {"idle", "returned"}
    /\ run < MaxRuns
    /\ run' = run + 1
    /\ run_start_file' = output_file
    /\ append_opens' = 0
    /\ accepted' = << >>
    /\ pc' = "loop"
    /\ idx' = 1
    /\ total_new_entries' = 0
    /\ processed_files' = << >>
    /\ UNCHANGED <<language_name, png_files, output_file, result, initial_file,
                   read_failures, last_append, parse_vars>>

\* Lines 176-186: process_directory is called; without PNG files it returns
\* the error, otherwise it enters the loop.
ProcessDirectoryCall ==
    /\ pc \in {"idle", "returned"}
    /\ run < MaxRuns
    /\ run' = run + 1
    /\ run_start_file' = output_file
    /\ append_opens' = 0
    /\ accepted' = << >>
    /\ IF png_files = << >>
       THEN /\ pc' = "returned"
            /\ result' = [error |-> "No PNG files found"]
            /\ UNCHANGED <<idx, total_new_entries, processed_files>>
       ELSE /\ pc' = "loop"
            /\ idx' = 1
            /\ total_new_entries' = 0
            /\ processed_files' = << >>
            /\ UNCHANGED result
    /\ UNCHANGED <<language_name, png_files, output_file, initial_file,
                   read_failures, last_append, parse_vars>>

\* Lines 192-195: the image yields no text.
ProcessImageNoText ==
    /\ pc = "loop"
    /\ idx <= Len(png_files)
    /\ extract_text_from_image(png_files[idx]) = << >>
    /\ idx' = idx + 1
    /\ UNCHANGED <<language_name, png_files, output_file, pc, total_new_entries,
                   processed_files, result, run, initial_file, run_start_file,
                   read_failures, append_opens, accepted, last_append, parse_vars>>

\* Lines 198-201: the text yields no vocabulary.
ProcessImageNoVocabulary ==
    /\ pc = "loop"
    /\ idx <= Len(png_files)
    /\ extract_text_from_image(png_files[idx]) # << >>
    /\ ImageVocabulary[language_name, png_files[idx]] = << >>
    /\ idx' = idx + 1
    /\ UNCHANGED <<language_name, png_files, output_file, pc, total_new_entries,
                   processed_files, result, run, initial_file, run_start_file,
                   read_failures, append_opens, accepted, last_append, parse_vars>>

\* Lines 204-208: the vocabulary of the image is appended.  The read of the
\* store file succeeds, or raises at open or after some of its lines.
ProcessImageAppend ==
    /\ pc = "loop"
    /\ idx <= Len(png_files)
    /\ \E vocab \in {ImageVocabulary[language_name, png_files[idx]]} :
         /\ vocab # << >>
         /\ \E lines \in {FileLines(output_file.content)} :
              \E failed \in BOOLEAN, lines_read \in 0..Len(lines) :
                 /\ ~failed => lines_read = Len(lines)
                 /\ failed => /\ output_file.exists
                              /\ read_failures < MaxReadFailures
                              /\ (lines_read < Len(lines) \/ lines = << >>)
                 /\ append_vocabulary(vocab, lines, failed, lines_read)
    /\ total_new_entries' = total_new_entries + last_append'.count
    /\ processed_files' = Append(processed_files, idx)
    /\ idx' = idx + 1
    /\ UNCHANGED <<language_name, png_files, pc, result, run, initial_file,
                   run_start_file, parse_vars>>

\* Lines 210-214: the loop is over and the summary is returned.
ProcessDirectoryReturn ==
    /\ pc = "loop"
    /\ idx > Len(png_files)
    /\ pc' = "returned"
    /\ result' = Summary
    /\ UNCHANGED <<language_name, png_files, output_file, idx, total_new_entries,
                   processed_files, run, initial_file, run_start_file,
                   read_failures, append_opens, accepted, last_append, parse_vars>>

----------------------------------------------------------------------------
(* The inputs. *)

RECURSIVE SeqsUpTo(_, _)
\* The sequences over S of length at most n.
SeqsUpTo(S, n) ==
    IF n = 0 THEN { << >> }
    ELSE LET shorter == SeqsUpTo(S, n - 1)
         IN  shorter \cup {Append(s, x) : s \in shorter, x \in S}

\* The characters of the generated texts of SpecParse.
ParseAlphabet == {"a", "B", "|", " ", "\t", "\n", "U+00E4"}

\* Lines with the words the parser looks for.
SampleLines ==
    { <<"n","e","w","|","a">>,
      <<"a","|","n","e","w">>,
      <<"a"," "," ","n","e","w">>,
      <<"N","e","w"," "," ","a">>,
      <<"E","n","g","l","i","s","h">>,
      <<"G","e","r","m","a","n"," "," ","a">>,
      <<"l","e","a","r","n","i","n","g">>,
      <<"S","t","r","e","n","g","t","h">>,
      <<"W","e","a","k">>,
      <<"t","r","a","n","s","l","a","t","i","o","n","|","a">>,
      <<"a">>,
      <<"U+00E4">> }

\* The texts SpecParse parses: every text of at most MaxTextLen characters
\* over ParseAlphabet, and every one or two of the sample lines.
ParseTexts ==
    SeqsUpTo(ParseAlphabet, MaxTextLen)
      \cup SampleLines
      \cup {l1 \o <<"\n">> \o l2 : l1 \in SampleLines, l2 \in SampleLines}

----------------------------------------------------------------------------
(* The specifications. *)

ParseIdle ==
    /\ text = << >>
    /\ vocabulary = << >>
    /\ origin = << >>
    /\ parsed = FALSE

PipelineIdle ==
    /\ pc = "idle"
    /\ idx = 1
    /\ total_new_entries = 0
    /\ processed_files = << >>
    /\ result = [none |-> TRUE]
    /\ run = 0
    /\ run_start_file = output_file
    /\ initial_file = output_file
    /\ read_failures = 0
    /\ append_opens = 0
    /\ accepted = << >>
    /\ last_append = NoAppend

\* The extractor constructed on a directory, before process_directory.
Init ==
    /\ language_name \in Languages
    /\ png_files \in SeqsUpTo(SampleImages, MaxImages)
    /\ output_file \in InitialStores
    /\ PipelineIdle
    /\ ParseIdle

Next ==
    \/ ProcessDirectoryCall
    \/ ProcessImageNoText
    \/ ProcessImageNoVocabulary
    \/ ProcessImageAppend
    \/ ProcessDirectoryReturn

Spec == Init /\ [][Next]_vars

\* smart_parse_vocabulary is applied to the text.
Parse ==
    /\ ~parsed
    /\ parsed' = TRUE
    /\ vocabulary' = smart_parse_vocabulary(text, language_name)
    /\ origin' = ParseOrigin(text, language_name)
    /\ UNCHANGED <<language_name, text, pipeline_vars>>

InitParse ==
    /\ language_name \in Languages
    /\ text \in ParseTexts
    /\ vocabulary = << >>
    /\ origin = << >>
    /\ parsed = FALSE
    /\ png_files = << >>
    /\ output_file = [exists |-> FALSE, content |-> << >>]
    /\ PipelineIdle

NextParse == Parse

SpecParse == InitParse /\ [][NextParse]_vars

----------------------------------------------------------------------------
(* Properties of the batch (Spec). *)

IsPrefix(s, u) == Len(s) <= Len(u) /\ SubSeq(u, 1, Len(s)) = s

\* The keys a successful load_existing_vocabulary reads from the file.
StoreKeys(file) ==
    LET lines == FileLines(file.content)
    IN  load_existing_vocabulary(file.exists, lines, Len(lines))

\* The number of lines written to a content.
NewlineCount(content) == Cardinality({i \in 1..Len(content) : content[i] = "\n"})

\* The store file is absent or every line of it ends with a newline.
NewlineTerminated(file) ==
    file.content = << >> \/ file.content[Len(file.content)] = "\n"

\* C1 (idempotence): a run that follows a completed run over the same images
\* appends nothing and reports total_new_entries = 0.  Stated for the
\* behaviours the claim is least in doubt on: no read of the store file has
\* failed and the initial store is absent or newline-terminated.
SecondRunAddsNothing ==
    (/\ pc = "returned"
     /\ run >= 2
     /\ png_files # << >>
     /\ read_failures = 0
     /\ NewlineTerminated(initial_file))
    => (result.total_new_entries = 0 /\ output_file = run_start_file)

\* C2 (append-only): the content of the store file before an
\* append_vocabulary call, before a run of process_directory and before the
\* first run is a prefix of its content afterwards, the file is not removed,
\* and a load after a call reads back every key a load before it read.
StoreIsAppendOnly ==
    /\ IsPrefix(initial_file.content, run_start_file.content)
    /\ IsPrefix(run_start_file.content, output_file.content)
    /\ initial_file.exists => output_file.exists
    /\ last_append.called =>
          /\ IsPrefix(last_append.before.content, output_file.content)
          /\ StoreKeys(last_append.before) \subseteq StoreKeys(output_file)

\* C2 witness: an append_vocabulary call has added lines to a store file that
\* already held lines.
AppendedToNonEmptyStore ==
    /\ last_append.called
    /\ last_append.count > 0
    /\ last_append.before.content # << >>
    /\ output_file.content # last_append.before.content

\* C3 (key uniqueness): from an empty store, no two lines of the store file
\* have the same key.  Stated for behaviours without a failed read.
StoreKeysUnique ==
    (~initial_file.exists /\ read_failures = 0)
    => LET lines == FileLines(output_file.content)
       IN  \A i, j \in 1..Len(lines) :
              i < j => LineKeys(lines[i]) \cap LineKeys(lines[j]) = {}

\* C4 (merge policy): the entries an append_vocabulary call accepts are the
\* candidates whose lowercased source term is neither in the loaded set nor
\* the lowercased source term of an earlier candidate, in input order, with an
\* empty note replaced by "from image"; the call returns their number and the
\* file is the file before the call followed by one line per accepted entry.
MergePolicy ==
    last_append.called =>
      LET V == last_append.vocabulary
          first == {i \in 1..Len(V) :
                      /\ Lower(V[i][1]) \notin last_append.existing
                      /\ \A j \in 1..(i - 1) : Lower(V[j][1]) # Lower(V[i][1])}
          order == Sorted(first)
          kept == [k \in 1..Len(order) |->
                     <<V[order[k]][1], V[order[k]][2],
                       IF V[order[k]][3] = << >> THEN FromImage ELSE V[order[k]][3]>>]
      IN  /\ last_append.new_entries = kept
          /\ last_append.count = Len(kept)
          /\ output_file.content =
                last_append.before.content
                  \o Flatten([k \in 1..Len(kept) |->
                                kept[k][1] \o <<"|">> \o kept[k][2] \o <<"|">>
                                  \o kept[k][3] \o <<"\n">>])

\* C4 witness: a call whose candidates hold the same source term up to letter
\* case twice, with different target terms, the first of them accepted.
SameKeyTwiceInOneCall ==
    /\ last_append.called
    /\ \E i, j \in 1..Len(last_append.vocabulary) :
          /\ i < j
          /\ Lower(last_append.vocabulary[i][1]) = Lower(last_append.vocabulary[j][1])
          /\ last_append.vocabulary[i][1] # last_append.vocabulary[j][1]
          /\ last_append.vocabulary[i][2] # last_append.vocabulary[j][2]
          /\ Lower(last_append.vocabulary[i][1]) \notin last_append.existing
          /\ \A k \in 1..(i - 1) :
                Lower(last_append.vocabulary[k][1]) # Lower(last_append.vocabulary[i][1])

\* C7 (every image recorded): the summary of a run over a non-empty image list
\* lists every image in processed_files.
EveryImageRecorded ==
    (pc = "returned" /\ png_files # << >>)
    => result.processed_files = [i \in 1..Len(png_files) |-> i]

\* C8 (read failure): a load_existing_vocabulary whose read fails returns the
\* empty set.
FailedReadGivesEmptySet ==
    (last_append.called /\ last_append.read_failed) => last_append.existing = {}

\* C9 (no input images): a run over no image returns a result with an "error"
\* key, has not opened the store file for append and leaves it as it was; a run
\* over images returns a result without "error", with total_new_entries = 0
\* when no image yields vocabulary.
NoImagesIsDistinguished ==
    pc = "returned" =>
      IF png_files = << >>
      THEN /\ "error" \in DOMAIN result
           /\ append_opens = 0
           /\ output_file = run_start_file
      ELSE /\ "error" \notin DOMAIN result
           /\ (\A i \in 1..Len(png_files) :
                  ImageVocabulary[language_name, png_files[i]] = << >>)
              => result.total_new_entries = 0

\* C9 witness: a run over an empty directory has returned the error.
ReturnedNoImagesError ==
    /\ pc = "returned"
    /\ png_files = << >>
    /\ "error" \in DOMAIN result

\* C10 (incremental merge): within one run no key accepted from an image is
\* accepted again from a later image, and the total_new_entries returned is
\* the number of lines the run appended.  Stated for behaviours without a
\* failed read, from an initial store that is absent or newline-terminated.
NoKeyAcceptedTwiceInRun ==
    (read_failures = 0 /\ NewlineTerminated(initial_file))
    => /\ \A m, n \in 1..Len(accepted) :
             accepted[m][1] < accepted[n][1] => accepted[m][2] # accepted[n][2]
       /\ (pc = "returned" /\ png_files # << >>)
          => result.total_new_entries =
                NewlineCount(output_file.content) - NewlineCount(run_start_file.content)

----------------------------------------------------------------------------
(* Properties of the parser (SpecParse). *)

\* The words of the Line Classifier.
NoiseWords ==
    { <<"g","e","r","m","a","n">>, <<"e","n","g","l","i","s","h">>,
      <<"s","p","a","n","i","s","h">>, <<"f","r","e","n","c","h">>,
      <<"s","t","r","e","n","g","t","h">>, <<"w","e","a","k">>,
      <<"s","t","r","o","n","g">>, <<"n","e","w">>,
      <<"l","e","a","r","n","i","n","g">>,
      <<"t","r","a","n","s","l","a","t","i","o","n">> }

\* The Line Classifier: the line is blank or contains a noise word.
IsNoise(line) == Strip(line) = << >> \/ ContainsAny(Lower(line), NoiseWords)

\* C5 (noise discarded): no entry of the result was emitted at a noise line.
NoEntryFromNoiseLine ==
    parsed =>
      \A k \in 1..Len(vocabulary) :
         ~IsNoise(Split(text, "\n")[origin[k].line])

\* The strength/progress labels of the Line Classifier.
StrengthWords ==
    { <<"s","t","r","e","n","g","t","h">>, <<"w","e","a","k">>,
      <<"s","t","r","o","n","g">>, <<"n","e","w">>,
      <<"l","e","a","r","n","i","n","g">> }

\* C6 (adjacent-line emit condition): an entry is emitted by the adjacent-line
\* strategy at a line only if the next line exists and is not noise (not blank,
\* no header, no strength/progress label), the line itself has no
\* strength/progress label, and the line has a non-ASCII character or the
\* language is German, Spanish or French.
AdjacentOnlyBeforeVocabularyLine ==
    parsed =>
      \A k \in 1..Len(vocabulary) :
         origin[k].strategy = "adjacent" =>
            LET lines == Split(text, "\n")
                i == origin[k].line
            IN  /\ i < Len(lines)
                /\ ~ContainsAny(Lower(lines[i]), StrengthWords)
                /\ ~IsNoise(lines[i + 1])
                /\ \/ \E n \in 1..Len(lines[i]) : NonAscii(lines[i][n])
                   \/ language_name \in {"German", "Spanish", "French"}

====
